---- MODULE Spec2Model ----
(***************************************************************************)
(* The example builders of smiles_transformer/dataset.py: STDataset,       *)
(* Seq2seqDataset, ESOLDataset, TSMDataset and MSMDataset.  A dataset is   *)
(* constructed once (Init) and then serves __getitem__ and __len__ calls.  *)
(*                                                                         *)
(* Probabilities (the values of random.random(), the corruption rate, the  *)
(* thresholds 0.5 and 1.0) are written in thousandths: 150 is 0.15.        *)
(***************************************************************************)
EXTENDS Integers, Sequences, FiniteSets, TLC

VARIABLES ds, out, hist

vars == <<ds, out, hist>>

(***************************************************************************)
(* Program constants.                                                      *)
(***************************************************************************)
\* dataset.py:9  PAD = 0
PAD == 0
\* dataset.py:40 and :127  max_size = 10000
max_size == 10000
\* dataset.py:96  the literal 0.15 of STDataset.mask, in thousandths
ST_RATE == 150
\* dataset.py:247  rate=0.01, the default of MSMDataset, in thousandths
MSM_RATE == 10
\* dataset.py:94 and :294  prob = 1.0 when not training, in thousandths
EVAL_PROB == 1000
\* dataset.py:82 and :232  rand<0.5, in thousandths
HALF == 500

(***************************************************************************)
(* Bounds of the model.                                                    *)
(***************************************************************************)
\* longest token sequence a molecule renders to
MaxLen == 2
\* largest seq_len a dataset is constructed with
MaxSeqLen == 8
\* rows of the small corpus
NSmall == 3

(***************************************************************************)
(* Sequence helpers: Python's list operations.                             *)
(***************************************************************************)
\* [v] * n: the empty list when n <= 0
Repeat(v, n) == [i \in 1..n |-> v]

\* s[:n] for n >= 0
Take(s, n) == IF Len(s) <= n THEN s ELSE SubSeq(s, 1, n)

\* ArrayIndex with the upper bound checked as item <= n
ArrayIndexOffByOne(n, item) ==
    IF 0 <= item /\ item <= n THEN item
    ELSE IF -n <= item /\ item < 0 THEN n + item
    ELSE -1

\* a[item] of an array of n elements: the position read (0-based), or -1 for
\* IndexError.  A negative item counts from the end.
ArrayIndex(n, item) ==
    IF 0 <= item /\ item < n THEN item
    ELSE IF -n <= item /\ item < 0 THEN n + item
    ELSE -1

(***************************************************************************)
(* The vocabulary (external): reserved ids and stoi.                       *)
(***************************************************************************)
\* the vocabulary of the specification's examples
VocabA ==
    [pad_index |-> 0, unk_index |-> 1, sos_index |-> 2, eos_index |-> 3,
     mask_index |-> 4, stoi |-> [t \in {"C", "O"} |-> IF t = "C" THEN 5 ELSE 6],
     size |-> 7]

\* a vocabulary whose reserved pad id is not 0
VocabB ==
    [pad_index |-> 1, unk_index |-> 0, sos_index |-> 2, eos_index |-> 3,
     mask_index |-> 4, stoi |-> [t \in {"C", "O"} |-> IF t = "C" THEN 5 ELSE 6],
     size |-> 7]

Vocabs == {VocabA, VocabB}

\* self.vocab.stoi.get(token, self.vocab.unk_index)
Lookup(vocab, token) ==
    IF token \in DOMAIN vocab.stoi THEN vocab.stoi[token] ELSE vocab.unk_index

(***************************************************************************)
(* Molecule strings and token sequences.  "Q" is in no vocabulary.         *)
(***************************************************************************)
Alphabet == <<"C", "O", "Q">>

Word(o, k) == [i \in 1..k |-> Alphabet[((o + i - 2) % Len(Alphabet)) + 1]]

\* the token sequences the Randomizer may return
Words == {Word(o, k) : o \in 1..Len(Alphabet), k \in 0..MaxLen}

\* the corpus: the characters of df['first'][row] and df['second'][row]
CorpusText(col, row) ==
    IF col = "first"
    THEN Word((row % Len(Alphabet)) + 1, row % (MaxLen + 1))
    ELSE Word(((row + 1) % Len(Alphabet)) + 1, (row + 1) % (MaxLen + 1))

(***************************************************************************)
(* The random source.  A call draws its masking values from a window of    *)
(* DrawCycle that starts at the call's seed.                               *)
(***************************************************************************)
DrawCycle == <<0, 8, 10, 130, 150, 500, 800, 900>>

Seeds == 0..(Len(DrawCycle) - 1)

\* the k-th value (k >= 0) random.random() returns inside mask() in a call
Draw(seed, k) == DrawCycle[((seed + k) % Len(DrawCycle)) + 1]

\* the values random.random() returns in get_random_pair
Coins == {HALF - 1, HALF, EVAL_PROB - 1}

\* the values random.randrange(len(vocab)) returns: the ends of its range
RandIds(vocab) == {0, vocab.size - 1}

(***************************************************************************)
(* mask(): one token, then the loop.                                       *)
(***************************************************************************)
\* MaskSlot whose 'current token' branch leaves the answer slot at PAD
MaskSlotNoAnswer(vocab, is_train, rate, token, draw, rr) ==
    LET prob == IF is_train THEN draw ELSE EVAL_PROB
        true_id == Lookup(vocab, token)
    IN  IF prob > rate
        THEN [masked |-> true_id, ans |-> PAD, err |-> FALSE]
        ELSE IF rate = 0
        THEN [masked |-> -1, ans |-> -1, err |-> TRUE]
        ELSE IF 10 * prob < 8 * rate
        THEN [masked |-> vocab.mask_index, ans |-> true_id, err |-> FALSE]
        ELSE IF 10 * prob < 9 * rate
        THEN [masked |-> rr, ans |-> true_id, err |-> FALSE]
        ELSE [masked |-> true_id, ans |-> PAD, err |-> FALSE]

\* one iteration of the loop of mask(): the slot pair, or a ZeroDivisionError
\* from prob /= rate
MaskSlot(vocab, is_train, rate, token, draw, rr) ==
    LET prob == IF is_train THEN draw ELSE EVAL_PROB
        true_id == Lookup(vocab, token)
    IN  IF prob > rate
        THEN [masked |-> true_id, ans |-> PAD, err |-> FALSE]
        ELSE IF rate = 0
        THEN [masked |-> -1, ans |-> -1, err |-> TRUE]
        ELSE IF 10 * prob < 8 * rate
        THEN [masked |-> vocab.mask_index, ans |-> true_id, err |-> FALSE]
        ELSE IF 10 * prob < 9 * rate
        THEN [masked |-> rr, ans |-> true_id, err |-> FALSE]
        ELSE [masked |-> true_id, ans |-> true_id, err |-> FALSE]

\* mask(sm); the draws of token i is Draw(seed, first + i - 1)
mask(vocab, is_train, rate, sm, seed, first, rr) ==
    LET slot(i) == MaskSlot(vocab, is_train, rate, sm[i], Draw(seed, first + i - 1), rr)
    IN  [masked_ids |-> [i \in 1..Len(sm) |-> slot(i).masked],
         ans_ids    |-> [i \in 1..Len(sm) |-> slot(i).ans],
         err        |-> \E i \in 1..Len(sm) : slot(i).err]

NoMask == [masked_ids |-> <<>>, ans_ids |-> <<>>, err |-> FALSE]

\* encode(sm): the id of every element of sm
encode(vocab, sm) == [i \in 1..Len(sm) |-> Lookup(vocab, sm[i])]

\* get_random_pair that compares with rand <= 0.5
get_random_pair_inclusive(rand) ==
    IF rand <= HALF THEN [col |-> "first", label |-> 1]
    ELSE [col |-> "second", label |-> 0]

\* get_random_pair(index): the column of the second molecule and the label
get_random_pair(rand) ==
    IF rand < HALF THEN [col |-> "first", label |-> 1]
    ELSE [col |-> "second", label |-> 0]

(***************************************************************************)
(* The constructors.                                                       *)
(***************************************************************************)
\* the rows self.firsts / self.seconds / self.smiles hold after __init__
Held(d) ==
    IF d.variant \in {"ST", "S2S"} /\ ~d.is_train /\ d.nrows > max_size
    THEN max_size
    ELSE d.nrows

\* the corruption rate mask() compares with
RateOf(d) == IF d.variant = "ST" THEN ST_RATE ELSE d.rate

Rates == {0, MSM_RATE, ST_RATE, EVAL_PROB}

Config(v, t, r, voc, sl, n) ==
    [variant |-> v, is_train |-> t, rate |-> r, vocab |-> voc, seq_len |-> sl,
     nrows |-> n]

\* every variant over the small corpus, every seq_len and both vocabularies
AssemblyConfigs ==
    {Config(v, t, MSM_RATE, voc, sl, NSmall) :
        v \in {"ST", "S2S", "ESOL", "TSM", "MSM"}, t \in BOOLEAN,
        voc \in Vocabs, sl \in 1..MaxSeqLen}

\* MSMDataset with every rate
RateConfigs ==
    {Config("MSM", t, r, voc, MaxSeqLen, NSmall) :
        t \in BOOLEAN, r \in Rates, voc \in Vocabs}

\* every variant over a corpus at and above the evaluation cap
CorpusConfigs ==
    {Config(v, t, MSM_RATE, VocabA, MaxSeqLen, n) :
        v \in {"ST", "S2S", "ESOL", "TSM", "MSM"}, t \in BOOLEAN,
        n \in {max_size, max_size + 1}}

\* ESOLDataset takes no is_train
Configs ==
    {d \in AssemblyConfigs \cup RateConfigs \cup CorpusConfigs :
        d.variant = "ESOL" => d.is_train}

(***************************************************************************)
(* The sample __getitem__ returns.                                         *)
(***************************************************************************)
NoSample ==
    [fields |-> {}, bert_input |-> <<>>, bert_label |-> <<>>,
     segment_embd |-> <<>>, is_same |-> -1, target |-> -1,
     input1 |-> <<>>, input2 |-> <<>>]

\* AssembleMasked that gives the second sub-sequence a leading start marker
AssembleMaskedSecondSos(vocab, seq_len, m1, m2) ==
    LET masked_ids1 == <<vocab.sos_index>> \o m1.masked_ids \o <<vocab.eos_index>>
        masked_ids2 == <<vocab.sos_index>> \o m2.masked_ids \o <<vocab.eos_index>>
        ans_ids1 == <<vocab.pad_index>> \o m1.ans_ids \o <<vocab.pad_index>>
        ans_ids2 == <<vocab.pad_index>> \o m2.ans_ids \o <<vocab.pad_index>>
        segment_embd == Take(Repeat(1, Len(masked_ids1)) \o Repeat(2, Len(masked_ids2)), seq_len)
        bert_input == Take(masked_ids1 \o masked_ids2, seq_len)
        bert_label == Take(ans_ids1 \o ans_ids2, seq_len)
        padding == Repeat(vocab.pad_index, seq_len - Len(bert_input))
    IN  [NoSample EXCEPT !.bert_input = bert_input \o padding,
                         !.bert_label = bert_label \o padding,
                         !.segment_embd = segment_embd \o padding]

\* lines 55-72 of STDataset.__getitem__ and 267-283 of MSMDataset.__getitem__
AssembleMasked(vocab, seq_len, m1, m2) ==
    LET masked_ids1 == <<vocab.sos_index>> \o m1.masked_ids \o <<vocab.eos_index>>
        masked_ids2 == m2.masked_ids \o <<vocab.eos_index>>
        ans_ids1 == <<vocab.pad_index>> \o m1.ans_ids \o <<vocab.pad_index>>
        ans_ids2 == m2.ans_ids \o <<vocab.pad_index>>
        segment_embd == Take(Repeat(1, Len(masked_ids1)) \o Repeat(2, Len(masked_ids2)), seq_len)
        bert_input == Take(masked_ids1 \o masked_ids2, seq_len)
        bert_label == Take(ans_ids1 \o ans_ids2, seq_len)
        padding == Repeat(vocab.pad_index, seq_len - Len(bert_input))
    IN  [NoSample EXCEPT !.bert_input = bert_input \o padding,
                         !.bert_label = bert_label \o padding,
                         !.segment_embd = segment_embd \o padding]

\* lines 210-222 of TSMDataset.__getitem__
AssemblePair(vocab, seq_len, ids1, ids2) ==
    LET sm1 == <<vocab.sos_index>> \o ids1 \o <<vocab.eos_index>>
        sm2 == ids2 \o <<vocab.eos_index>>
        segment_embd == Take(Repeat(1, Len(sm1)) \o Repeat(2, Len(sm2)), seq_len)
        bert_input == Take(sm1 \o sm2, seq_len)
        padding == Repeat(vocab.pad_index, seq_len - Len(bert_input))
    IN  [NoSample EXCEPT !.bert_input = bert_input \o padding,
                         !.segment_embd = segment_embd \o padding]

\* lines 166-177 of ESOLDataset.__getitem__
AssembleSingle(vocab, seq_len, sm) ==
    LET masked_ids == <<vocab.sos_index>> \o sm \o <<vocab.eos_index>>
        segment_embd == Repeat(1, Len(masked_ids))
        bert_input == Take(masked_ids, seq_len)
        padding == Repeat(vocab.pad_index, seq_len - Len(bert_input))
    IN  [NoSample EXCEPT !.bert_input = bert_input \o padding,
                         !.segment_embd = segment_embd \o padding]

\* lines 137-140 and 142-145 of Seq2seqDataset.__getitem__
Seq2seqInput(vocab, seq_len, sm) ==
    LET content == encode(vocab, sm)
        input == <<vocab.sos_index>> \o content \o <<vocab.eos_index>>
        padding == Repeat(vocab.pad_index, seq_len - Len(input))
    IN  input \o padding

(***************************************************************************)
(* The calls.  out is what the last call returned or raised.               *)
(***************************************************************************)
Idle ==
    [op |-> "idle", status |-> "none", item |-> 0, row |-> -1, coin |-> -1,
     seed |-> -1, pair_col |-> "none", sm1 |-> <<>>, sm2 |-> <<>>,
     m1 |-> NoMask, m2 |-> NoMask, sample |-> NoSample, len |-> -1]

NoHistory == [first |-> Idle, others |-> FALSE]

Raised(item, error) ==
    [Idle EXCEPT !.op = "getitem", !.status = error, !.item = item]

\* the indexes a caller passes to a dataset that holds n rows
Items(n) == {-n - 1, -n, -1, 0, n - 1, n}

\* the seeds of a call: mask() draws only when training
SeedsOf(d) == IF d.is_train THEN Seeds ELSE {0}

Init ==
    /\ ds \in Configs
    /\ out = Idle
    /\ hist = NoHistory

\* STDataset.__getitem__(item)
STGetItem(item, coin, seed, r1, r2, rr1, rr2) ==
    LET row == ArrayIndex(Held(ds), item)
        pair == get_random_pair(coin)
        m1 == mask(ds.vocab, ds.is_train, RateOf(ds), r1, seed, 0, rr1)
        m2 == mask(ds.vocab, ds.is_train, RateOf(ds), r2, seed, Len(r1), rr2)
        s == AssembleMasked(ds.vocab, ds.seq_len, m1, m2)
    IN  IF row = -1 THEN Raised(item, "IndexError")
        ELSE IF m1.err \/ m2.err THEN Raised(item, "ZeroDivisionError")
        ELSE [Idle EXCEPT !.op = "getitem", !.status = "ok", !.item = item,
                          !.row = row, !.coin = coin, !.seed = seed,
                          !.pair_col = pair.col, !.sm1 = r1, !.sm2 = r2,
                          !.m1 = m1, !.m2 = m2,
                          !.sample = [s EXCEPT
                              !.fields = {"bert_input", "bert_label", "segment_embd", "is_same"},
                              !.is_same = pair.label]]

\* MSMDataset.__getitem__(item)
MSMGetItem(item, seed, r1, r2, rr1, rr2) ==
    LET row == ArrayIndex(Held(ds), item)
        m1 == mask(ds.vocab, ds.is_train, RateOf(ds), r1, seed, 0, rr1)
        m2 == mask(ds.vocab, ds.is_train, RateOf(ds), r2, seed, Len(r1), rr2)
        s == AssembleMasked(ds.vocab, ds.seq_len, m1, m2)
    IN  IF row = -1 THEN Raised(item, "IndexError")
        ELSE IF m1.err \/ m2.err THEN Raised(item, "ZeroDivisionError")
        ELSE [Idle EXCEPT !.op = "getitem", !.status = "ok", !.item = item,
                          !.row = row, !.seed = seed, !.pair_col = "first",
                          !.sm1 = r1, !.sm2 = r2, !.m1 = m1, !.m2 = m2,
                          !.sample = [s EXCEPT
                              !.fields = {"bert_input", "bert_label", "segment_embd"}]]

\* TSMGetItem that reads the second molecule from a cursor which calls on
\* other indexes have moved
TSMGetItemCursor(item, coin) ==
    LET row == ArrayIndex(Held(ds), item)
        pair == get_random_pair(coin)
        sm1 == CorpusText("first", row)
        sm2 == CorpusText(pair.col, IF hist.others THEN row + 1 ELSE row)
        s == AssemblePair(ds.vocab, ds.seq_len, encode(ds.vocab, sm1), encode(ds.vocab, sm2))
    IN  IF row = -1 THEN Raised(item, "IndexError")
        ELSE [Idle EXCEPT !.op = "getitem", !.status = "ok", !.item = item,
                          !.row = row, !.coin = coin, !.pair_col = pair.col,
                          !.sm1 = sm1, !.sm2 = sm2,
                          !.sample = [s EXCEPT
                              !.fields = {"bert_input", "segment_embd", "is_same"},
                              !.is_same = pair.label]]

\* TSMDataset.__getitem__(item): the corpus strings are encoded as they are
TSMGetItem(item, coin) ==
    LET row == ArrayIndex(Held(ds), item)
        pair == get_random_pair(coin)
        sm1 == CorpusText("first", row)
        sm2 == CorpusText(pair.col, row)
        s == AssemblePair(ds.vocab, ds.seq_len, encode(ds.vocab, sm1), encode(ds.vocab, sm2))
    IN  IF row = -1 THEN Raised(item, "IndexError")
        ELSE [Idle EXCEPT !.op = "getitem", !.status = "ok", !.item = item,
                          !.row = row, !.coin = coin, !.pair_col = pair.col,
                          !.sm1 = sm1, !.sm2 = sm2,
                          !.sample = [s EXCEPT
                              !.fields = {"bert_input", "segment_embd", "is_same"},
                              !.is_same = pair.label]]

\* ESOLDataset.__getitem__(item); the target is Y[item], named by its row
ESOLGetItem(item, r1) ==
    LET row == ArrayIndex(Held(ds), item)
        s == AssembleSingle(ds.vocab, ds.seq_len, encode(ds.vocab, r1))
    IN  IF row = -1 THEN Raised(item, "IndexError")
        ELSE [Idle EXCEPT !.op = "getitem", !.status = "ok", !.item = item,
                          !.row = row, !.sm1 = r1,
                          !.sample = [s EXCEPT
                              !.fields = {"bert_input", "segment_embd", "target"},
                              !.target = row]]

\* Seq2seqDataset.__getitem__(item)
Seq2seqGetItem(item, r1, r2) ==
    LET row == ArrayIndex(Held(ds), item)
    IN  IF row = -1 THEN Raised(item, "IndexError")
        ELSE [Idle EXCEPT !.op = "getitem", !.status = "ok", !.item = item,
                          !.row = row, !.pair_col = "first", !.sm1 = r1, !.sm2 = r2,
                          !.sample = [NoSample EXCEPT
                              !.fields = {"input1", "input2"},
                              !.input1 = Seq2seqInput(ds.vocab, ds.seq_len, r1),
                              !.input2 = Seq2seqInput(ds.vocab, ds.seq_len, r2)]]

\* __len__ of each class; STDataset.__len__ reads self.smiles, which
\* STDataset.__init__ never sets
LenResult(d) ==
    IF d.variant = "ST" THEN [Idle EXCEPT !.op = "len", !.status = "AttributeError"]
    ELSE IF d.variant = "S2S" THEN [Idle EXCEPT !.op = "len", !.status = "ok", !.len = Held(d)]
    ELSE [Idle EXCEPT !.op = "len", !.status = "ok", !.len = d.nrows]

GetItemST ==
    /\ ds.variant = "ST" /\ out = Idle
    /\ \E item \in Items(Held(ds)), coin \in Coins, seed \in SeedsOf(ds),
          r1 \in Words, r2 \in Words,
          rr1 \in RandIds(ds.vocab), rr2 \in RandIds(ds.vocab) :
          out' = STGetItem(item, coin, seed, r1, r2, rr1, rr2)
    /\ UNCHANGED <<ds, hist>>

GetItemMSM ==
    /\ ds.variant = "MSM" /\ out = Idle
    /\ \E item \in Items(Held(ds)), seed \in SeedsOf(ds),
          r1 \in Words, r2 \in Words,
          rr1 \in RandIds(ds.vocab), rr2 \in RandIds(ds.vocab) :
          out' = MSMGetItem(item, seed, r1, r2, rr1, rr2)
    /\ UNCHANGED <<ds, hist>>

\* hist remembers the first sample a TSMDataset returned, and whether a call
\* on another index has returned since
GetItemTSM ==
    /\ ds.variant = "TSM" /\ out = Idle
    /\ \E item \in Items(Held(ds)), coin \in Coins :
          out' = TSMGetItem(item, coin)
    /\ hist' = IF out'.status # "ok" THEN hist
               ELSE IF hist.first = Idle THEN [first |-> out', others |-> FALSE]
               ELSE [hist EXCEPT !.others = @ \/ out'.item # hist.first.item]
    /\ UNCHANGED ds

GetItemESOL ==
    /\ ds.variant = "ESOL" /\ out = Idle
    /\ \E item \in Items(Held(ds)), r1 \in Words :
          out' = ESOLGetItem(item, r1)
    /\ UNCHANGED <<ds, hist>>

GetItemSeq2seq ==
    /\ ds.variant = "S2S" /\ out = Idle
    /\ \E item \in Items(Held(ds)), r1 \in Words, r2 \in Words :
          out' = Seq2seqGetItem(item, r1, r2)
    /\ UNCHANGED <<ds, hist>>

GetLen ==
    /\ out = Idle
    /\ out' = LenResult(ds)
    /\ UNCHANGED <<ds, hist>>

\* the caller takes the result; the dataset is ready for the next call
Return ==
    /\ out # Idle
    /\ out' = Idle
    /\ UNCHANGED <<ds, hist>>

Next ==
    \/ GetItemST
    \/ GetItemMSM
    \/ GetItemTSM
    \/ GetItemESOL
    \/ GetItemSeq2seq
    \/ GetLen
    \/ Return

Spec == Init /\ [][Next]_vars

(***************************************************************************)
(* The properties.  Helpers first.                                         *)
(***************************************************************************)
\* __getitem__ returned a sample
Returned == out.op = "getitem" /\ out.status = "ok"

\* the dataset is one of the two classes that call mask()
Masking == ds.variant \in {"ST", "MSM"}

ArrayFields == {"bert_input", "bert_label", "segment_embd", "input1", "input2"}

Field(s, f) ==
    CASE f = "bert_input" -> s.bert_input
      [] f = "bert_label" -> s.bert_label
      [] f = "segment_embd" -> s.segment_embd
      [] f = "input1" -> s.input1
      [] f = "input2" -> s.input2

\* the token sequence and the result of the k-th mask() call of the last sample
TokensOf(k) == IF k = 1 THEN out.sm1 ELSE out.sm2

MaskOf(k) == IF k = 1 THEN out.m1 ELSE out.m2

\* the value prob has for token i of the k-th mask() call, before prob /= rate
ProbOf(k, i) ==
    IF ds.is_train
    THEN Draw(out.seed, (IF k = 1 THEN 0 ELSE Len(out.sm1)) + i - 1)
    ELSE EVAL_PROB

\* the first seq_len elements of [sos] + ids1 + [eos] + ids2 + [eos], right-padded
FramedPair(vocab, seq_len, ids1, ids2) ==
    LET whole == <<vocab.sos_index>> \o ids1 \o <<vocab.eos_index>> \o ids2
                     \o <<vocab.eos_index>>
        kept == Take(whole, seq_len)
    IN  kept \o Repeat(vocab.pad_index, seq_len - Len(kept))

\* C1: every array of every returned sample has exactly seq_len elements
\* (bert_input, bert_label, segment_embd, and both Seq2seqDataset sequences).
C1_EveryArrayHasSeqLen ==
    Returned =>
        \A f \in out.sample.fields \cap ArrayFields :
            Len(Field(out.sample, f)) = ds.seq_len

\* C2: in evaluation mode STDataset and MSMDataset never mask, whatever the
\* rate: every answer slot is the vocabulary's pad id, every input slot the
\* true id, bert_label is all pad and bert_input the framed encoding.
C2_EvalNeverMasks ==
    (Returned /\ Masking /\ ~ds.is_train) =>
        /\ \A k \in {1, 2} :
              /\ MaskOf(k).ans_ids = Repeat(ds.vocab.pad_index, Len(TokensOf(k)))
              /\ MaskOf(k).masked_ids = encode(ds.vocab, TokensOf(k))
        /\ out.sample.bert_label = Repeat(ds.vocab.pad_index, ds.seq_len)
        /\ out.sample.bert_input =
              FramedPair(ds.vocab, ds.seq_len, encode(ds.vocab, out.sm1),
                         encode(ds.vocab, out.sm2))

\* C3: in mask(), a token of the vocabulary whose draw is greater than the
\* rate gets the vocabulary's reserved pad id as answer slot and its true id
\* as input slot.
C3_UnmaskedSlotIsVocabPad ==
    (Returned /\ Masking) =>
        \A k \in {1, 2} : \A i \in 1..Len(TokensOf(k)) :
            (TokensOf(k)[i] \in DOMAIN ds.vocab.stoi /\ ProbOf(k, i) > RateOf(ds)) =>
                /\ MaskOf(k).ans_ids[i] = ds.vocab.pad_index
                /\ MaskOf(k).masked_ids[i] = ds.vocab.stoi[TokensOf(k)[i]]

\* C4: in training mode a token whose draw p is at most the rate r gets its
\* input slot by p' = p / r: the mask id for p' < 0.8, an id of 0..len(vocab)-1
\* for 0.8 <= p' < 0.9, its true id for p' >= 0.9; its answer slot is its true
\* id (unk for a token the vocabulary lacks) in all three cases.
C4_CorruptionSubCases ==
    (Returned /\ Masking /\ ds.is_train) =>
        \A k \in {1, 2} : \A i \in 1..Len(TokensOf(k)) :
            LET p == ProbOf(k, i)
                r == RateOf(ds)
                true_id == IF TokensOf(k)[i] \in DOMAIN ds.vocab.stoi
                           THEN ds.vocab.stoi[TokensOf(k)[i]]
                           ELSE ds.vocab.unk_index
                input == MaskOf(k).masked_ids[i]
            IN  p <= r =>
                    /\ MaskOf(k).ans_ids[i] = true_id
                    /\ 10 * p < 8 * r => input = ds.vocab.mask_index
                    /\ (8 * r <= 10 * p /\ 10 * p < 9 * r) => input \in 0..(ds.vocab.size - 1)
                    /\ 9 * r <= 10 * p => input = true_id

\* a training sample in which all three sub-cases fired, the second one at
\* p' = 0.8 exactly and on a token the vocabulary lacks
C4_Witness ==
    /\ Returned /\ Masking /\ ds.is_train /\ RateOf(ds) > 0
    /\ \E k \in {1, 2} : \E i \in 1..Len(TokensOf(k)) :
          /\ 10 * ProbOf(k, i) < 8 * RateOf(ds)
          /\ MaskOf(k).masked_ids[i] = ds.vocab.mask_index
          /\ MaskOf(k).ans_ids[i] = Lookup(ds.vocab, TokensOf(k)[i])
    /\ \E k \in {1, 2} : \E i \in 1..Len(TokensOf(k)) :
          /\ 10 * ProbOf(k, i) = 8 * RateOf(ds)
          /\ TokensOf(k)[i] = "Q"
          /\ MaskOf(k).masked_ids[i] = ds.vocab.size - 1
          /\ MaskOf(k).ans_ids[i] = ds.vocab.unk_index
    /\ \E k \in {1, 2} : \E i \in 1..Len(TokensOf(k)) :
          /\ ProbOf(k, i) = RateOf(ds)
          /\ MaskOf(k).masked_ids[i] = Lookup(ds.vocab, TokensOf(k)[i])
          /\ MaskOf(k).ans_ids[i] = MaskOf(k).masked_ids[i]

\* C5: every position of segment_embd that holds a marker or token of the
\* first sub-sequence is 1, every position that holds a token or the end
\* marker of the second sub-sequence is 2, and every padding position is 0,
\* for every vocabulary.
C5_SegmentTags ==
    (Returned /\ "segment_embd" \in out.sample.fields) =>
        LET n1 == Len(out.sm1) + 2
            n2 == IF ds.variant = "ESOL" THEN 0 ELSE Len(out.sm2) + 1
        IN  \A p \in 1..Len(out.sample.segment_embd) :
                out.sample.segment_embd[p] =
                    IF p <= n1 THEN 1 ELSE IF p <= n1 + n2 THEN 2 ELSE 0

\* C6: for TSMDataset, and for STDataset and MSMDataset in evaluation mode,
\* bert_input is the first seq_len elements of [sos]+ids1+[eos]+ids2+[eos],
\* right-padded with the pad id; with the example vocabulary, seq_len = 8,
\* first = [C] and second = [O] it is [2,5,3,6,3,0,0,0], and segment_embd is
\* [1,1,1,2,2,0,0,0].
C6_PairFraming ==
    (Returned /\ (ds.variant = "TSM" \/ (Masking /\ ~ds.is_train))) =>
        /\ out.sample.bert_input =
              FramedPair(ds.vocab, ds.seq_len, encode(ds.vocab, out.sm1),
                         encode(ds.vocab, out.sm2))
        /\ (ds.vocab = VocabA /\ ds.seq_len = 8 /\ out.sm1 = <<"C">> /\ out.sm2 = <<"O">>) =>
              /\ out.sample.bert_input = <<2, 5, 3, 6, 3, 0, 0, 0>>
              /\ out.sample.segment_embd = <<1, 1, 1, 2, 2, 0, 0, 0>>

\* the example: STDataset in evaluation mode, the pairing draw on 'different'
C6_Witness ==
    /\ Returned /\ ds.variant = "ST" /\ ~ds.is_train
    /\ ds.vocab = VocabA /\ ds.seq_len = 8
    /\ out.sm1 = <<"C">> /\ out.sm2 = <<"O">> /\ out.sample.is_same = 0
    /\ out.sample.bert_input = <<2, 5, 3, 6, 3, 0, 0, 0>>

\* C7 as stated: every index outside 0..N-1, negative ones included, makes
\* __getitem__ fail with IndexError.
C7_OutsideZeroToNRaises ==
    (out.op = "getitem" /\ out.item \notin 0..(Held(ds) - 1)) =>
        out.status = "IndexError"

\* C7 as amended: an index >= N or < -N makes __getitem__ fail with IndexError
\* and return no sample; an index in -N..-1 counts from the end, and the
\* sample is built from row N + index; an index in 0..N-1 reads its own row.
C7_IndexErrorOutsideArray ==
    out.op = "getitem" =>
        /\ (out.item >= Held(ds) \/ out.item < -Held(ds)) =>
              (out.status = "IndexError" /\ out.sample = NoSample)
        /\ out.status = "ok" =>
              /\ out.row = IF out.item < 0 THEN Held(ds) + out.item ELSE out.item
              /\ ds.variant = "TSM" => out.sm1 = CorpusText("first", out.row)
              /\ ds.variant = "ESOL" => out.sample.target = out.row

\* index -1 of an evaluation STDataset cut to the cap returns the last kept row
C7_Witness ==
    /\ Returned /\ ds.variant = "ST" /\ ~ds.is_train
    /\ ds.nrows = max_size + 1 /\ Held(ds) = max_size
    /\ out.item = -1 /\ out.row = max_size - 1

\* C8: in STDataset and TSMDataset a pairing draw < 0.5 takes firsts[index]
\* with label 1, a draw >= 0.5 (0.5 included) takes seconds[index] with label
\* 0; the counterpart is the one of the same index, and is_same is the label.
C8_PairingDraw ==
    (Returned /\ ds.variant \in {"ST", "TSM"}) =>
        LET same == out.coin < HALF
            index == IF out.item < 0 THEN Held(ds) + out.item ELSE out.item
        IN  /\ out.pair_col = IF same THEN "first" ELSE "second"
            /\ out.sample.is_same = IF same THEN 1 ELSE 0
            /\ out.row = index
            /\ ds.variant = "TSM" =>
                  out.sm2 = CorpusText(IF same THEN "first" ELSE "second", index)

\* a draw of exactly 0.5 gives the counterpart of the same row, label 0
C8_Witness ==
    /\ Returned /\ ds.variant = "TSM" /\ out.coin = HALF
    /\ out.item = NSmall - 1
    /\ out.sm2 = CorpusText("second", out.item) /\ out.sm2 # out.sm1
    /\ out.sample.is_same = 0

C10_LenIsRowsHeld ==
    out.op = "len" => (out.status = "ok" /\ out.len = Held(ds))

====
